---------------------------- MODULE Spec2Model ----------------------------
(***************************************************************************)
(* A model of the MaxScale filter core (server/core/filter.c): the         *)
(* registry of filter definitions, lazy module loading, and the assembly   *)
(* of the per-session downstream and upstream filter chains.               *)
(***************************************************************************)
EXTENDS Integers, Sequences, FiniteSets, TLC

(***************************************************************************)
(* Bounds of the model.                                                    *)
(***************************************************************************)
\* Number of FILTER_DEF blocks the heap can hold at one time.
MaxDefs == 3
\* Number of distinct filter names the configuration layer may use.
MaxNames == 3
\* Number of threads that may run filter_load.
NThreads == 2
\* Number of filter_load calls made in one run.
MaxLoadCalls == 3
\* Largest number of filters a service is configured with.
MaxChain == 3
\* Most characters put before or after a reserved parameter name.
MaxSuffix == 1
\* Number of registry and configuration calls the threads make in all.
MaxOps == 3
\* The last second of the cache stage's clock, and the largest ttl,
\* row count and size (of configurations and of result sets).
MaxTime == 3
MaxTtl == 2
MaxRows == 2
MaxSize == 2

\* The C null pointer.
NULL == 0

\* Addresses of FILTER_DEF blocks handed out by MXS_MALLOC.
Addr == 1..MaxDefs

FilterNames == <<"hint", "cache", "qla", "tee", "regex", "topfilter">>
Names == {FilterNames[i] : i \in 1..MaxNames}

(***************************************************************************)
(* The filter modules a configuration can name.  A module object is the    *)
(* FILTER_OBJECT entry point table of include/maxscale/filter.h; the       *)
(* optional entry points setUpstream and clientReply are present or NULL.  *)
(* load_module returns the index of the module in this table.              *)
(***************************************************************************)
ModuleTable ==
    << [module |-> "downonly", setUpstream |-> FALSE, clientReply |-> FALSE],
       [module |-> "full",     setUpstream |-> TRUE,  clientReply |-> TRUE],
       [module |-> "noreply",  setUpstream |-> TRUE,  clientReply |-> FALSE],
       [module |-> "noupset",  setUpstream |-> FALSE, clientReply |-> TRUE] >>
Objs == 1..Len(ModuleTable)
Modules == {ModuleTable[o].module : o \in Objs}
\* The module the registry specification allocates with.
RegModules == {"full"}
\* The names and modules of the specification that allocates one name with
\* several modules.
DupNames == {FilterNames[1], FilterNames[2]}
DupModules == {"downonly", "full"}
\* The filters of the configuration the loading specifications start from.
LoadConfig == <<"hint", "cache">>
NLoadDefs == Len(LoadConfig)

Threads == 1..NThreads

VARIABLES
    allFilters,   \* static FILTER_DEF *allFilters: head of the list of all filters
    def,          \* the FILTER_DEF blocks, by address
    live,         \* addresses of the FILTER_DEF blocks allocated and not freed
    last,         \* the last registry call: its arguments and what it returned
    dupAlloc,     \* some filter_alloc was given a name filter_find located
    owned,        \* per definition: the heap blocks allocated for it and not freed
    spin,         \* per definition: the thread holding filter->spin, or NULL
    pc,           \* filter_load: each thread's position
    arg,          \* filter_load: each thread's FILTER_DEF *filter argument
    rval,         \* filter_load: each thread's local rval
    called,       \* filter_load: the module calls of the thread's current call
    had,          \* filter_load: the definition had an instance when the call began
    nLoadCalls,   \* number of filter_load calls started
    created,      \* per definition: the instances createInstance returned, in order
    lastFail,     \* per definition: the step its last completed load failed at
    chain,        \* the filters configured for the service, first to last
    spc,          \* the session's chain assembly: its position
    si,           \* the session's chain assembly: index of the filter to apply
    sess_head,    \* session->head: the session's downstream entry point
    sess_tail,    \* session->tail: the session's upstream entry point
    sfs,          \* the per-session handle of each configured filter
    dnode,        \* the DOWNSTREAM blocks, by address
    dlive,        \* addresses of the DOWNSTREAM blocks allocated and not freed
    unode,        \* the UPSTREAM blocks, by address
    ulive,        \* addresses of the UPSTREAM blocks allocated and not freed
    nSess,        \* number of per-session handles newSession has returned
    fsDown,       \* per per-session handle: the downstream setDownstream gave it
    fsUp,         \* per per-session handle: the upstream setUpstream gave it
    sdCalls,      \* the setDownstream calls made, in order
    suCalls,      \* the setUpstream calls made, in order
    clast,        \* the last filterApply or filterUpstream call
    qpos,         \* the component the query in flight is at
    qtrace,       \* the instances whose routeQuery the query has entered
    spName,       \* filter_standard_parameter: its char *name argument
    spRet,        \* filter_standard_parameter: what it returned
    filter_spin,  \* static SPINLOCK filter_spin: the thread holding it, or NULL
    opc,          \* registry and configuration calls: each thread's position
    oarg,         \* registry and configuration calls: each thread's call
    oloc,         \* filterAddOption, filterAddParameter: the thread's locals
    optHist,      \* per definition: the options filterAddOption was called with
    parHist,      \* per definition: the parameters filterAddParameter was called with
    nOps,         \* number of registry and configuration calls started
    ccfg,         \* cache stage: its CACHE_CONFIG
    now,          \* cache stage: the time, in seconds
    cstore,       \* cache stage: per key, the entry the storage backend holds
    cpc,          \* cache stage: idle, or waiting for the reply to a query
    pending,      \* cache stage: the key of the query forwarded, and whether armed
    clog          \* cache stage: the last routeQuery or clientReply call

regVars == <<allFilters, def, live, last, dupAlloc, owned, spin>>
loadVars == <<pc, arg, rval, called, had, nLoadCalls, created, lastFail>>
chainVars == <<chain, spc, si, sess_head, sess_tail, sfs, dnode, dlive, unode, ulive, nSess,
               fsDown, fsUp, sdCalls, suCalls, clast, qpos, qtrace>>
stdVars == <<spName, spRet>>
cfgVars == <<filter_spin, opc, oarg, oloc, optHist, parHist, nOps>>
cacheVars == <<ccfg, now, cstore, cpc, pending, clog>>
otherVars == <<stdVars, cfgVars, cacheVars>>
vars == <<regVars, loadVars, chainVars, otherVars>>

\* No filter_standard_parameter call has been made.
InitStdVars ==
    /\ spName = <<>>
    /\ spRet = -1

\* A thread that is in no call, and the locals of a call not yet begun.
NoOp == [op |-> "none", filter |-> NULL, option |-> "", name |-> <<>>, value |-> "",
         regname |-> "", module |-> ""]
NoLocals == [i |-> 0, fresh |-> FALSE, parameters |-> <<>>, ptr |-> NULL,
             seen |-> <<>>, torn |-> FALSE]

\* No thread is in a call and no lock is held.
InitCfgVars ==
    /\ filter_spin = NULL
    /\ opc = [t \in Threads |-> "idle"]
    /\ oarg = [t \in Threads |-> NoOp]
    /\ oloc = [t \in Threads |-> NoLocals]
    /\ optHist = [a \in Addr |-> <<>>]
    /\ parHist = [a \in Addr |-> <<>>]
    /\ nOps = 0

\* The keys of the requests, and the result sets of the server.
CacheKeys == {"select 1", "select 2"}
Results == [rows : 1..MaxRows, size : 1..MaxSize]
NoResult == [rows |-> 0, size |-> 0]
\* No entry under a key, no query forwarded, no call made.
NoEntry == [result |-> NoResult, at |-> 0 - 1]
NoPending == [key |-> "", armed |-> FALSE]
NoCacheCall == [op |-> "none", key |-> "", cacheable |-> FALSE, time |-> 0,
                entry |-> NoEntry, lookup |-> "none", forwarded |-> FALSE,
                armed |-> FALSE, received |-> NoResult, up |-> NoResult,
                put |-> "none"]

\* A cache stage that has seen no query, with the configuration config.
CacheStarts(config) ==
    /\ ccfg = config
    /\ now = 0
    /\ cstore = [k \in CacheKeys |-> NoEntry]
    /\ cpc = "idle"
    /\ pending = NoPending
    /\ clog = NoCacheCall

\* The configuration of a cache stage that is not used.
InitCacheVars ==
    CacheStarts([ttl |-> 1, max_resultset_rows |-> 1, max_resultset_size |-> 1])

InitOtherVars ==
    /\ InitStdVars
    /\ InitCfgVars
    /\ InitCacheVars

(***************************************************************************)
(* FILTER_DEF blocks.                                                      *)
(***************************************************************************)
\* The contents of a block that is not allocated.
FreedDef ==
    [name |-> "", module |-> "", options |-> <<>>, parameters |-> <<>>,
     filter |-> NULL, obj |-> NULL, next |-> NULL]

\* filter_alloc swapping its two string arguments.
NewFilterDef_swapped(name, module, head) ==
    [name |-> module, module |-> name, options |-> <<>>, parameters |-> <<>>,
     filter |-> NULL, obj |-> NULL, next |-> head]

\* The block filter_alloc builds: the copies of name and module, no options
\* (options == NULL), no parameters, no instance, no module object, and
\* next pointing at the old head of the list.
NewFilterDef(name, module, head) ==
    [name |-> name, module |-> module, options |-> <<>>, parameters |-> <<>>,
     filter |-> NULL, obj |-> NULL, next |-> head]

(***************************************************************************)
(* The heap blocks of a definition.  A pointer is <<>> when it is NULL and *)
(* <<x>> when it points at x; an array is the sequence of its slots.       *)
(***************************************************************************)
\* The blocks held for a definition: strings, arrays and FILTER_PARAMETERs.
NothingOwned == [strings |-> 0, arrays |-> 0, records |-> 0]

\* filter_alloc: the MXS_STRDUP copies of name and module.
AllocOwned == [strings |-> 2, arrays |-> 0, records |-> 0]

\* for (i = 0; array[i]; i++): the slots before the first NULL one.
EntryCount(array) ==
    IF \E k \in 1..Len(array) : array[k] = <<>>
    THEN (CHOOSE k \in 1..Len(array) :
             /\ array[k] = <<>>
             /\ \A j \in 1..(k - 1) : array[j] # <<>>) - 1
    ELSE Len(array)

\* filter_free_parameters: MXS_FREE of each parameter's name and value, then
\* of the array.
filter_free_parameters(f) ==
    [strings |-> 2 * EntryCount(f.parameters),
     arrays |-> IF f.parameters # <<>> THEN 1 ELSE 0,
     records |-> 0]

\* The blocks filter_free releases besides the FILTER_DEF itself: name and
\* module, each option and the options array, and what filter_free_parameters
\* releases.
FreedBy(f) ==
    [strings |-> 2 + EntryCount(f.options) + filter_free_parameters(f).strings,
     arrays |-> (IF f.options # <<>> THEN 1 ELSE 0) + filter_free_parameters(f).arrays,
     records |-> filter_free_parameters(f).records]

\* The blocks still held after some of them are released or added.
OwnedMinus(o, f) ==
    [strings |-> o.strings - f.strings, arrays |-> o.arrays - f.arrays,
     records |-> o.records - f.records]
OwnedPlus(o, f) ==
    [strings |-> o.strings + f.strings, arrays |-> o.arrays + f.arrays,
     records |-> o.records + f.records]

\* The heap of a registry whose first n definitions were made by filter_alloc.
InitHeap(n) ==
    /\ owned = [a \in Addr |-> IF a <= n THEN AllocOwned ELSE NothingOwned]
    /\ spin = [a \in Addr |-> NULL]

(***************************************************************************)
(* Traversals of the list (all run under filter_spin).                     *)
(***************************************************************************)
RECURSIVE FindFrom(_, _, _)
\* The loop of filter_find from ptr: the first block whose name is name.
FindFrom(ptr, d, name) ==
    IF ptr = NULL THEN NULL
    ELSE IF d[ptr].name = name THEN ptr
    ELSE FindFrom(d[ptr].next, d, name)

\* filter_find testing the head of the list only.
filter_find_head_only(name) ==
    IF allFilters # NULL /\ def[allFilters].name = name THEN allFilters ELSE NULL

filter_find(name) == FindFrom(allFilters, def, name)

RECURSIVE CountFrom(_, _)
\* The loop of filter_count_filters from ptr.
CountFrom(ptr, d) ==
    IF ptr = NULL THEN 0 ELSE 1 + CountFrom(d[ptr].next, d)

filter_count_filters == CountFrom(allFilters, def)

RECURSIVE PrevOf(_, _, _)
\* The loop of filter_free: while (ptr && ptr->next != filter) ptr = ptr->next
PrevOf(ptr, d, filter) ==
    IF ptr = NULL \/ d[ptr].next = filter THEN ptr
    ELSE PrevOf(d[ptr].next, d, filter)

\* filter_free without the if (ptr) after its loop: a definition the loop
\* did not find is unlinked as if it were the head.
Unlink_unchecked(head, d, filter) ==
    IF head = filter \/ PrevOf(head, d, filter) = NULL
    THEN [head |-> d[filter].next, def |-> d]
    ELSE [head |-> head,
          def |-> [d EXCEPT ![PrevOf(head, d, filter)].next = d[filter].next]]

\* filter_free unlinking the head only.
Unlink_head_only(head, d, filter) ==
    IF head = filter
    THEN [head |-> d[filter].next, def |-> d]
    ELSE [head |-> head, def |-> d]

\* filter_free leaving the definition in the list.
Unlink_skipped(head, d, filter) == [head |-> head, def |-> d]

\* The unlink of filter_free: the new head and the new next pointers.
Unlink(head, d, filter) ==
    IF head = filter
    THEN [head |-> d[filter].next, def |-> d]
    ELSE LET ptr == PrevOf(head, d, filter)
         IN IF ptr # NULL
            THEN [head |-> head, def |-> [d EXCEPT ![ptr].next = d[filter].next]]
            ELSE [head |-> head, def |-> d]

\* The blocks linked in the list, head first.
RECURSIVE ListFrom(_, _)
ListFrom(ptr, d) ==
    IF ptr = NULL THEN <<>> ELSE <<ptr>> \o ListFrom(d[ptr].next, d)

Registered == {ListFrom(allFilters, def)[i] : i \in 1..Len(ListFrom(allFilters, def))}

\* No two registered definitions have the same name.
NamesUnique ==
    \A a, b \in Registered : a # b => def[a].name # def[b].name

\* Addresses of the per-session chain blocks handed out by MXS_CALLOC, and
\* the two ends of a session's chains: the router's DOWNSTREAM (the true
\* sink of queries) and the client's UPSTREAM.
DAddr == 1..MaxChain
UAddr == 1..MaxChain
Sink == MaxChain + 1
Client == MaxChain + 1
\* The per-session handles newSession returns.
Handles == 1..MaxChain

\* The contents of a chain block that is not allocated.
FreeNode == [instance |-> NULL, session |-> NULL, entry |-> NULL]

NoChainCall == [op |-> "none", filter |-> NULL, next |-> NULL, ret |-> NULL,
                newSession |-> "not called", liveBefore |-> {},
                callsBefore |-> 0, nextBefore |-> FreeNode]

NoCall == [op |-> "none", name |-> "", module |-> "", ret |-> NULL,
           count |-> 0, uniq |-> TRUE]

(***************************************************************************)
(* Registry operations.                                                    *)
(***************************************************************************)
filter_alloc(name, module) ==
    \/ \* MXS_STRDUP or MXS_MALLOC returned NULL: nothing is linked
       /\ last' = [op |-> "alloc", name |-> name, module |-> module, ret |-> NULL,
                   count |-> filter_count_filters, uniq |-> NamesUnique]
       /\ UNCHANGED <<allFilters, def, live, dupAlloc, owned, spin>>
    \/ \E filter \in Addr \ live :
       /\ def' = [def EXCEPT ![filter] = NewFilterDef(name, module, allFilters)]
       /\ allFilters' = filter
       /\ live' = live \cup {filter}
       /\ owned' = [owned EXCEPT ![filter] = OwnedPlus(@, AllocOwned)]
       /\ spin' = [spin EXCEPT ![filter] = NULL]
       /\ dupAlloc' = (dupAlloc \/ filter_find(name) # NULL)
       /\ last' = [op |-> "alloc", name |-> name, module |-> module, ret |-> filter,
                   count |-> filter_count_filters, uniq |-> NamesUnique]

filter_free(filter) ==
    \/ /\ filter = NULL
       /\ last' = [op |-> "free", name |-> "", module |-> "", ret |-> NULL,
                   count |-> filter_count_filters, uniq |-> NamesUnique]
       /\ UNCHANGED <<allFilters, def, live, dupAlloc, owned, spin>>
    \/ /\ filter \in live
       /\ LET u == Unlink(allFilters, def, filter)
          IN /\ allFilters' = u.head
             /\ def' = [u.def EXCEPT ![filter] = FreedDef]
       /\ live' = live \ {filter}
       /\ owned' = [owned EXCEPT ![filter] = OwnedMinus(@, FreedBy(def[filter]))]
       /\ last' = [op |-> "free", name |-> def[filter].name,
                   module |-> def[filter].module, ret |-> filter,
                   count |-> filter_count_filters, uniq |-> NamesUnique]
       /\ UNCHANGED <<dupAlloc, spin>>
    \/ \* a FILTER_DEF of the caller that filter_alloc did not link: the
       \* unlink compares its address only, the blocks released are its own
       /\ filter \in Addr \ live
       /\ LET u == Unlink(allFilters, def, filter)
          IN /\ allFilters' = u.head
             /\ def' = u.def
       /\ last' = [op |-> "free_unlinked", name |-> "", module |-> "", ret |-> filter,
                   count |-> filter_count_filters, uniq |-> NamesUnique]
       /\ UNCHANGED <<live, dupAlloc, owned, spin>>

\* A caller of filter_find: the result is what the call returned.
FindCall(name) ==
    /\ last' = [op |-> "find", name |-> name, module |-> "", ret |-> filter_find(name),
                count |-> filter_count_filters, uniq |-> NamesUnique]
    /\ UNCHANGED <<allFilters, def, live, dupAlloc, owned, spin>>

\* A caller of filter_count_filters.
CountCall ==
    /\ last' = [op |-> "count", name |-> "", module |-> "",
                ret |-> filter_count_filters,
                count |-> filter_count_filters, uniq |-> NamesUnique]
    /\ UNCHANGED <<allFilters, def, live, dupAlloc, owned, spin>>

\* No filter_load call has been made.
InitLoadVars ==
    /\ pc = [t \in Threads |-> "idle"]
    /\ arg = [t \in Threads |-> NULL]
    /\ rval = [t \in Threads |-> FALSE]
    /\ called = [t \in Threads |-> {}]
    /\ had = [t \in Threads |-> FALSE]
    /\ nLoadCalls = 0
    /\ created = [a \in Addr |-> <<>>]
    /\ lastFail = [a \in Addr |-> "none"]

\* No session has been set up.
InitSessionVars ==
    /\ spc = "idle"
    /\ si = 0
    /\ sess_head = Sink
    /\ sess_tail = Client
    /\ sfs = [i \in 1..MaxChain |-> NULL]
    /\ dnode = [n \in DAddr |-> FreeNode]
    /\ dlive = {}
    /\ unode = [n \in UAddr |-> FreeNode]
    /\ ulive = {}
    /\ nSess = 0
    /\ fsDown = [h \in Handles |-> NULL]
    /\ fsUp = [h \in Handles |-> NULL]
    /\ sdCalls = <<>>
    /\ suCalls = <<>>
    /\ clast = NoChainCall
    /\ qpos = NULL
    /\ qtrace = <<>>

\* No service is configured with filters.
InitChainVars ==
    /\ chain = <<>>
    /\ InitSessionVars

Init ==
    /\ allFilters = NULL
    /\ def = [a \in Addr |-> FreedDef]
    /\ live = {}
    /\ last = NoCall
    /\ dupAlloc = FALSE
    /\ InitHeap(0)
    /\ InitLoadVars
    /\ InitChainVars
    /\ InitOtherVars

Alloc == \E name \in Names, module \in RegModules : filter_alloc(name, module)
Free == \E filter \in live \cup {NULL} : filter_free(filter)
Find == \E name \in Names : FindCall(name)
Count == CountCall

Next ==
    \/ Alloc /\ UNCHANGED <<loadVars, chainVars, otherVars>>
    \/ Free /\ UNCHANGED <<loadVars, chainVars, otherVars>>
    \/ Find /\ UNCHANGED <<loadVars, chainVars, otherVars>>
    \/ Count /\ UNCHANGED <<loadVars, chainVars, otherVars>>

Spec == Init /\ [][Next]_vars

\* The registry with few names and several modules: definitions that share a
\* name differ in their module.
AllocDup == \E name \in DupNames, module \in DupModules : filter_alloc(name, module)
FindDup == \E name \in DupNames : FindCall(name)

NextDup ==
    \/ AllocDup /\ UNCHANGED <<loadVars, chainVars, otherVars>>
    \/ Free /\ UNCHANGED <<loadVars, chainVars, otherVars>>
    \/ FindDup /\ UNCHANGED <<loadVars, chainVars, otherVars>>

SpecDup == Init /\ [][NextDup]_vars

(***************************************************************************)
(* Chain assembly.  filterApply and filterUpstream are the code of         *)
(* filter.c; the loops that call them for a session, and what a module     *)
(* does in newSession, setDownstream, setUpstream and routeQuery, are      *)
(* those of the chain builder and the module contract.                     *)
(***************************************************************************)
\* filter->obj->setUpstream != NULL and filter->obj->clientReply != NULL.
HasSetUpstream(o) == ModuleTable[o].setUpstream
HasClientReply(o) == ModuleTable[o].clientReply

\* What newSession(instance, session) can return: NULL or a new handle.
NewSessionResults == {NULL, nSess + 1}

\* filterApply keeping the block when newSession fails.
ReleaseNode_leak(nodes, me) == nodes

\* MXS_FREE(me): the allocated blocks without me.
ReleaseNode(nodes, me) == nodes \ {me}

\* filterApply handing the filter its own block as its downstream.
DownstreamArg_self(me, downstream) == me

\* The third argument of the setDownstream call of filterApply.
DownstreamArg(me, downstream) == downstream

\* filterUpstream returning NULL for a filter it skips.
SkipResult_null(upstream) == NULL

\* return upstream: what filterUpstream returns for a module without
\* setUpstream.
SkipResult(upstream) == upstream

\* filterUpstream leaving the session of its block unset.
UpstreamSession_unset(fsession) == NULL

\* me->session = fsession: the session of the block filterUpstream builds.
UpstreamSession(fsession) == fsession

\* The call record shared by both operations, before the call has acted.
ApplyCall(filter, downstream) ==
    [op |-> "apply", filter |-> filter, next |-> downstream, ret |-> NULL,
     newSession |-> "not called", liveBefore |-> dlive,
     callsBefore |-> Len(sdCalls),
     nextBefore |-> IF downstream \in DAddr THEN dnode[downstream] ELSE FreeNode]

UpstreamCall(filter, upstream) ==
    [op |-> "upstream", filter |-> filter, next |-> upstream, ret |-> NULL,
     newSession |-> "not called", liveBefore |-> ulive,
     callsBefore |-> Len(suCalls),
     nextBefore |-> IF upstream \in UAddr THEN unode[upstream] ELSE FreeNode]

\* filterApply(filter, session, downstream); clast.ret is what it returns.
\* The caller has loaded the filter: filter->obj is dereferenced unchecked.
filterApply(filter, downstream) ==
    \/ \* MXS_CALLOC returned NULL
       /\ clast' = ApplyCall(filter, downstream)
       /\ UNCHANGED <<dnode, dlive, nSess, fsDown, sdCalls>>
    \/ \E me \in DAddr \ dlive, fs \in NewSessionResults :
          IF fs = NULL
          THEN /\ dlive' = ReleaseNode(dlive \cup {me}, me)
               /\ clast' = [ApplyCall(filter, downstream) EXCEPT
                               !.newSession = "null"]
               /\ UNCHANGED <<dnode, nSess, fsDown, sdCalls>>
          ELSE /\ dnode' = [dnode EXCEPT ![me] =
                               [instance |-> def[filter].filter, session |-> fs,
                                entry |-> def[filter].obj]]
               /\ dlive' = dlive \cup {me}
               /\ nSess' = nSess + 1
               /\ fsDown' = [fsDown EXCEPT ![fs] = DownstreamArg(me, downstream)]
               /\ sdCalls' = Append(sdCalls,
                               [instance |-> def[filter].filter, session |-> fs,
                                downstream |-> DownstreamArg(me, downstream)])
               /\ clast' = [ApplyCall(filter, downstream) EXCEPT
                               !.newSession = "ok", !.ret = me]

\* filterUpstream(filter, fsession, upstream); clast.ret is what it returns.
filterUpstream(filter, fsession, upstream) ==
    IF ~HasSetUpstream(def[filter].obj)
    THEN /\ clast' = [UpstreamCall(filter, upstream) EXCEPT
                         !.ret = SkipResult(upstream)]
         /\ UNCHANGED <<unode, ulive, fsUp, suCalls>>
    ELSE IF HasClientReply(def[filter].obj)
    THEN \/ \* MXS_CALLOC returned NULL
            /\ clast' = UpstreamCall(filter, upstream)
            /\ UNCHANGED <<unode, ulive, fsUp, suCalls>>
         \/ \E me \in UAddr \ ulive :
               /\ unode' = [unode EXCEPT ![me] =
                               [instance |-> def[filter].filter,
                                session |-> UpstreamSession(fsession),
                                entry |-> def[filter].obj]]
               /\ ulive' = ulive \cup {me}
               /\ fsUp' = [fsUp EXCEPT ![fsession] = upstream]
               /\ suCalls' = Append(suCalls,
                               [instance |-> def[filter].filter,
                                session |-> fsession, upstream |-> upstream])
               /\ clast' = [UpstreamCall(filter, upstream) EXCEPT !.ret = me]
    ELSE \* me is still NULL at return me
         /\ clast' = UpstreamCall(filter, upstream)
         /\ UNCHANGED <<unode, ulive, fsUp, suCalls>>

\* The session starts assembling its chains, last configured filter first.
SessionStart ==
    /\ spc = "idle"
    /\ spc' = "down"
    /\ si' = Len(chain)
    /\ UNCHANGED <<chain, sess_head, sess_tail, sfs, dnode, dlive, unode, ulive,
                   nSess, fsDown, fsUp, sdCalls, suCalls, clast, qpos, qtrace>>

\* One filter is applied with the chain built so far as its downstream; a
\* NULL result aborts the assembly.
BuildDown ==
    /\ spc = "down"
    /\ si >= 1
    /\ filterApply(chain[si], sess_head)
    /\ IF clast'.ret = NULL
       THEN /\ spc' = "failed"
            /\ UNCHANGED <<si, sess_head, sfs>>
       ELSE /\ sess_head' = clast'.ret
            /\ sfs' = [sfs EXCEPT ![si] = dnode'[clast'.ret].session]
            /\ si' = si - 1
            /\ spc' = "down"
    /\ UNCHANGED <<chain, sess_tail, unode, ulive, fsUp, suCalls, qpos, qtrace>>

\* The downstream chain is complete; the upstream chain is built next.
DownDone ==
    /\ spc = "down"
    /\ si = 0
    /\ spc' = "up"
    /\ si' = 1
    /\ UNCHANGED <<chain, sess_head, sess_tail, sfs, dnode, dlive, unode, ulive,
                   nSess, fsDown, fsUp, sdCalls, suCalls, clast, qpos, qtrace>>

\* One filter is connected upstream; a NULL result aborts the assembly.
BuildUp ==
    /\ spc = "up"
    /\ si <= Len(chain)
    /\ filterUpstream(chain[si], sfs[si], sess_tail)
    /\ IF clast'.ret = NULL
       THEN /\ spc' = "failed"
            /\ UNCHANGED <<si, sess_tail>>
       ELSE /\ sess_tail' = clast'.ret
            /\ si' = si + 1
            /\ spc' = "up"
    /\ UNCHANGED <<chain, sess_head, sfs, dnode, dlive, nSess, fsDown, sdCalls,
                   qpos, qtrace>>

\* Both chains are complete.
UpDone ==
    /\ spc = "up"
    /\ si > Len(chain)
    /\ spc' = "done"
    /\ UNCHANGED <<chain, si, sess_head, sess_tail, sfs, dnode, dlive, unode, ulive,
                   nSess, fsDown, fsUp, sdCalls, suCalls, clast, qpos, qtrace>>

\* A query enters the session's downstream chain at its head.
QueryStart ==
    /\ spc = "done"
    /\ qpos = NULL
    /\ qtrace = <<>>
    /\ qpos' = sess_head
    /\ UNCHANGED <<chain, spc, si, sess_head, sess_tail, sfs, dnode, dlive, unode,
                   ulive, nSess, fsDown, fsUp, sdCalls, suCalls, clast, qtrace>>

\* The routeQuery entry point of the block the query is at runs and passes
\* the query to the downstream its session was given.
RouteQuery ==
    /\ qpos \in dlive
    /\ Len(qtrace) <= MaxChain
    /\ qtrace' = Append(qtrace, dnode[qpos].instance)
    /\ qpos' = fsDown[dnode[qpos].session]
    /\ UNCHANGED <<chain, spc, si, sess_head, sess_tail, sfs, dnode, dlive, unode,
                   ulive, nSess, fsDown, fsUp, sdCalls, suCalls, clast>>

RECURSIVE LoadedDefs(_)
\* The blocks after filter_alloc and a successful filter_load of one
\* definition per module object of objs, the i-th at address i with
\* instance i.
LoadedDefs(objs) ==
    IF Len(objs) = 0 THEN [a \in Addr |-> FreedDef]
    ELSE LET n == Len(objs)
         IN [LoadedDefs(SubSeq(objs, 1, n - 1)) EXCEPT
                ![n] = [NewFilterDef(FilterNames[n], ModuleTable[objs[n]].module,
                                     n - 1)
                          EXCEPT !.obj = objs[n], !.filter = n]]

\* A service configured with up to MaxChain loaded filters, of any modules.
InitChain ==
    \E n \in 0..MaxChain :
      \E objs \in [1..n -> Objs] :
        /\ allFilters = n
        /\ def = LoadedDefs(objs)
        /\ live = 1..n
        /\ last = NoCall
        /\ dupAlloc = FALSE
        /\ InitHeap(n)
        /\ pc = [t \in Threads |-> "idle"]
        /\ arg = [t \in Threads |-> NULL]
        /\ rval = [t \in Threads |-> FALSE]
        /\ called = [t \in Threads |-> {}]
        /\ had = [t \in Threads |-> FALSE]
        /\ nLoadCalls = 0
        /\ created = [a \in Addr |-> IF a <= n THEN <<a>> ELSE <<>>]
        /\ lastFail = [a \in Addr |-> "none"]
        /\ chain = [i \in 1..n |-> i]
        /\ InitSessionVars
        /\ InitOtherVars

NextChain ==
    \/ SessionStart /\ UNCHANGED <<regVars, loadVars, otherVars>>
    \/ BuildDown /\ UNCHANGED <<regVars, loadVars, otherVars>>
    \/ DownDone /\ UNCHANGED <<regVars, loadVars, otherVars>>
    \/ BuildUp /\ UNCHANGED <<regVars, loadVars, otherVars>>
    \/ UpDone /\ UNCHANGED <<regVars, loadVars, otherVars>>
    \/ QueryStart /\ UNCHANGED <<regVars, loadVars, otherVars>>
    \/ RouteQuery /\ UNCHANGED <<regVars, loadVars, otherVars>>

SpecChain == InitChain /\ [][NextChain]_vars

(***************************************************************************)
(* Claims about the registry.                                              *)
(***************************************************************************)
\* C1: with pairwise distinct names, filter_count_filters is the number of
\* definitions allocated and not freed (a successful filter_alloc raises it
\* by one), every registered name is found as its own definition, and after
\* filter_free of a registered definition the count is one less and
\* filter_find of the freed name finds nothing while all others are found.
C1_CountAndFind ==
    /\ NamesUnique =>
          /\ filter_count_filters = Cardinality(live)
          /\ \A a \in live : filter_find(def[a].name) = a
    /\ (last.op = "alloc" /\ last.ret # NULL) =>
          filter_count_filters = last.count + 1
    /\ (last.op = "free" /\ last.ret # NULL /\ last.uniq) =>
          /\ filter_count_filters = last.count - 1
          /\ filter_find(last.name) = NULL
          /\ \A a \in live : filter_find(def[a].name) = a

\* Three definitions with distinct names were registered and one of them
\* has just been freed, leaving the other two.
C1_Witness ==
    /\ last.op = "free" /\ last.ret # NULL /\ last.uniq
    /\ last.count = 3
    /\ filter_count_filters = 2
    /\ Cardinality(live) = 2

\* C2 as stated: no two registered definitions ever have the same name.
C2_NamesAlwaysUnique == NamesUnique

\* C2 as amended: no two registered definitions have the same name so long
\* as no filter_alloc was given a name that filter_find located at the time
\* of the call; filter_alloc itself never looks a name up.
C2_UniqueUnlessDupAlloc == ~dupAlloc => NamesUnique

\* A name was freed and allocated again, next to another registered name.
C2_Witness ==
    /\ ~dupAlloc
    /\ last.op = "alloc" /\ last.ret # NULL
    /\ last.count = 2
    /\ NamesUnique

load_module(module) ==
    {NULL} \cup {o \in Objs : ModuleTable[o].module = module}

\* The instances createInstance has returned so far.
AllCreated == UNION {{created[a][i] : i \in 1..Len(created[a])} : a \in Addr}

\* The instance a successful createInstance returns: one not seen before.
NewInstance == 1 + Cardinality(AllCreated)

\* filter_load without the test of filter->filter.
AlreadyCreated_never(f) == FALSE

\* if (filter->filter): already loaded and created.
AlreadyCreated(f) == f.filter # NULL

\* filter_load loading the module on every call.
NeedsModule_always(f) == TRUE

\* if (filter->obj == NULL): filter not yet loaded.
NeedsModule(f) == f.obj = NULL

\* filter_load reporting success whatever createInstance returned.
InstanceRval_true(inst) == TRUE

\* if ((filter->filter = createInstance(...))) rval = true;
InstanceRval(inst) == inst # NULL

\* A thread calls filter_load(filter); if (filter) selects the branch.
LoadCall(t, filter) ==
    /\ pc[t] = "idle"
    /\ nLoadCalls < MaxLoadCalls
    /\ nLoadCalls' = nLoadCalls + 1
    /\ arg' = [arg EXCEPT ![t] = filter]
    /\ rval' = [rval EXCEPT ![t] = FALSE]
    /\ called' = [called EXCEPT ![t] = {}]
    /\ had' = [had EXCEPT ![t] = (filter # NULL /\ def[filter].filter # NULL)]
    /\ pc' = [pc EXCEPT ![t] = IF filter = NULL THEN "ret" ELSE "L387"]
    /\ UNCHANGED <<regVars, created, lastFail>>

\* line 387: the read of filter->filter.
L387(t) ==
    /\ pc[t] = "L387"
    /\ IF AlreadyCreated(def[arg[t]])
       THEN /\ rval' = [rval EXCEPT ![t] = TRUE]
            /\ pc' = [pc EXCEPT ![t] = "ret"]
       ELSE /\ pc' = [pc EXCEPT ![t] = "L394"]
            /\ UNCHANGED rval
    /\ UNCHANGED <<regVars, arg, called, had, nLoadCalls, created, lastFail>>

\* line 394: the read of filter->obj.
L394(t) ==
    /\ pc[t] = "L394"
    /\ pc' = [pc EXCEPT ![t] = IF NeedsModule(def[arg[t]]) THEN "L397" ELSE "L403"]
    /\ UNCHANGED <<regVars, arg, rval, called, had, nLoadCalls, created, lastFail>>

\* line 397: filter->obj = load_module(filter->module, MODULE_FILTER).
L397(t) ==
    /\ pc[t] = "L397"
    /\ \E o \in load_module(def[arg[t]].module) :
          /\ def' = [def EXCEPT ![arg[t]].obj = o]
          /\ called' = [called EXCEPT ![t] = @ \cup
                          {IF o = NULL THEN "load_module_fail" ELSE "load_module_ok"}]
    /\ pc' = [pc EXCEPT ![t] = "L403"]
    /\ UNCHANGED <<allFilters, live, last, dupAlloc, owned, spin, arg, rval, had, nLoadCalls,
                   created, lastFail>>

\* line 403: the second read of filter->obj.
L403(t) ==
    /\ pc[t] = "L403"
    /\ pc' = [pc EXCEPT ![t] = IF def[arg[t]].obj # NULL THEN "L407" ELSE "ret"]
    /\ UNCHANGED <<regVars, arg, rval, called, had, nLoadCalls, created, lastFail>>

\* line 407: filter->filter = createInstance(name, options, parameters).
L407(t) ==
    /\ pc[t] = "L407"
    /\ \E inst \in {NULL, NewInstance} :
          /\ def' = [def EXCEPT ![arg[t]].filter = inst]
          /\ created' = [created EXCEPT ![arg[t]] =
                            IF inst = NULL THEN @ ELSE Append(@, inst)]
          /\ called' = [called EXCEPT ![t] = @ \cup
                          {IF inst = NULL THEN "createInstance_fail"
                                          ELSE "createInstance_ok"}]
          /\ rval' = [rval EXCEPT ![t] = InstanceRval(inst)]
    /\ pc' = [pc EXCEPT ![t] = "ret"]
    /\ UNCHANGED <<allFilters, live, last, dupAlloc, owned, spin, arg, had, nLoadCalls, lastFail>>

\* return rval.  lastFail remembers the step a failed call stopped at.
LoadReturn(t) ==
    /\ pc[t] = "ret"
    /\ pc' = [pc EXCEPT ![t] = "idle"]
    /\ lastFail' = IF arg[t] = NULL THEN lastFail
                   ELSE [lastFail EXCEPT ![arg[t]] =
                           IF "load_module_fail" \in called[t] THEN "module"
                           ELSE IF "createInstance_fail" \in called[t] THEN "instance"
                           ELSE "none"]
    /\ UNCHANGED <<regVars, arg, rval, called, had, nLoadCalls, created>>

\* The steps of a filter_load call in progress.
LoadStep(t) == L387(t) \/ L394(t) \/ L397(t) \/ L403(t) \/ L407(t) \/ LoadReturn(t)

(***************************************************************************)
(* The loading specifications start from the registry the configuration    *)
(* layer leaves behind: NLoadDefs definitions, allocated one after the     *)
(* other by filter_alloc, none of them loaded.                             *)
(***************************************************************************)
RECURSIVE ConfiguredDefs(_, _)
\* The blocks after filter_alloc(FilterNames[i], module) for i = 1..n, the
\* i-th call returning address i.
ConfiguredDefs(n, module) ==
    IF n = 0 THEN [a \in Addr |-> FreedDef]
    ELSE [ConfiguredDefs(n - 1, module) EXCEPT
             ![n] = NewFilterDef(FilterNames[n], module, n - 1)]

InitLoad ==
    /\ allFilters = NLoadDefs
    /\ def = ConfiguredDefs(NLoadDefs, "full")
    /\ live = 1..NLoadDefs
    /\ last = [op |-> "alloc", name |-> FilterNames[NLoadDefs], module |-> "full",
               ret |-> NLoadDefs, count |-> NLoadDefs - 1, uniq |-> TRUE]
    /\ dupAlloc = FALSE
    /\ InitHeap(NLoadDefs)
    /\ InitLoadVars
    /\ InitChainVars
    /\ InitOtherVars

\* filter_load called by one thread at a time.
NextLoad ==
    \/ \E t \in Threads, filter \in live \cup {NULL} :
          /\ \A u \in Threads : pc[u] = "idle"
          /\ LoadCall(t, filter)
          /\ UNCHANGED <<chainVars, otherVars>>
    \/ \E t \in Threads : LoadStep(t) /\ UNCHANGED <<chainVars, otherVars>>

SpecLoad == InitLoad /\ [][NextLoad]_vars

\* filter_load called by any thread at any time.
NextLoadConc ==
    \/ \E t \in Threads, filter \in live \cup {NULL} :
          LoadCall(t, filter) /\ UNCHANGED <<chainVars, otherVars>>
    \/ \E t \in Threads : LoadStep(t) /\ UNCHANGED <<chainVars, otherVars>>

SpecLoadConc == InitLoad /\ [][NextLoadConc]_vars

(***************************************************************************)
(* Claims about filter_load.                                               *)
(***************************************************************************)
\* The module calls a filter_load call can make.
LoaderCalls == {"load_module_ok", "load_module_fail"}
CreateCalls == {"createInstance_ok", "createInstance_fail"}

\* C4: called by one thread at a time, a filter_load on a definition that
\* already has its instance returns true without calling load_module or
\* createInstance and leaves the instance of the first successful call in
\* place; createInstance succeeds at most once per definition.
C4_LoadIdempotent ==
    /\ \A t \in Threads :
          (pc[t] = "ret" /\ had[t]) =>
              /\ rval[t]
              /\ called[t] = {}
              /\ created[arg[t]] = <<def[arg[t]].filter>>
    /\ \A a \in live :
          /\ Len(created[a]) <= 1
          /\ def[a].filter # NULL => created[a] = <<def[a].filter>>

\* A filter_load on a definition that already had its instance is about to
\* return.
C4_Witness ==
    \E t \in Threads : pc[t] = "ret" /\ had[t] /\ arg[t] # NULL

\* C5: whatever the interleaving of the threads in filter_load, createInstance
\* succeeds at most once per definition and every instance it created is the
\* definition's shared instance.
C5_InstanceCreatedOnce ==
    \A a \in live :
        /\ Len(created[a]) <= 1
        /\ \A i \in 1..Len(created[a]) : def[a].filter \in {NULL, created[a][i]}

\* C6 as stated: a failed filter_load returns false and leaves no instance,
\* and the next filter_load on the definition calls the failed step again and
\* returns true if that step now succeeds.
C6_RetriedStepSuffices ==
    \A t \in Threads :
        (pc[t] = "ret" /\ arg[t] # NULL) =>
            /\ (called[t] \cap {"load_module_fail", "createInstance_fail"} # {}) =>
                  (~rval[t] /\ def[arg[t]].filter = NULL)
            /\ lastFail[arg[t]] = "module" =>
                  /\ called[t] \cap LoaderCalls # {}
                  /\ "load_module_ok" \in called[t] => rval[t]
            /\ lastFail[arg[t]] = "instance" =>
                  /\ called[t] \cap CreateCalls # {}
                  /\ "createInstance_ok" \in called[t] => rval[t]

\* C6 as amended: a failed filter_load returns false and leaves no instance,
\* and the next filter_load on the definition calls the failed step again;
\* it returns true if createInstance now succeeds, which after a failed
\* load_module takes both load_module and the createInstance that follows it.
C6_FailedLoadRetried ==
    /\ \A t \in Threads :
          (pc[t] = "ret" /\ arg[t] # NULL) =>
              /\ (called[t] \cap {"load_module_fail", "createInstance_fail"} # {}) =>
                    (~rval[t] /\ def[arg[t]].filter = NULL)
              /\ lastFail[arg[t]] = "module" =>
                    /\ called[t] \cap LoaderCalls # {}
                    /\ ("load_module_ok" \in called[t]
                          /\ "createInstance_ok" \in called[t]) => rval[t]
              /\ lastFail[arg[t]] = "instance" =>
                    /\ called[t] \cap CreateCalls # {}
                    /\ "createInstance_ok" \in called[t] => rval[t]
    /\ \A a \in live :
          (lastFail[a] # "none" /\ \A t \in Threads : pc[t] = "idle") =>
              def[a].filter = NULL

\* A filter_load that follows a failed load_module on the same definition is
\* about to return true.
C6_Witness ==
    \E t \in Threads :
        /\ pc[t] = "ret" /\ arg[t] # NULL
        /\ lastFail[arg[t]] = "module"
        /\ called[t] = {"load_module_ok", "createInstance_ok"}
        /\ rval[t]

\* A filter_load that follows a failed createInstance on the same definition
\* is about to return true.
C6_WitnessInstance ==
    \E t \in Threads :
        /\ pc[t] = "ret" /\ arg[t] # NULL
        /\ lastFail[arg[t]] = "instance"
        /\ called[t] = {"createInstance_ok"}
        /\ rval[t]

(***************************************************************************)
(* Claims about chain assembly.                                            *)
(***************************************************************************)
\* The shared instances of the configured filters, first to last.
ChainInstances == [i \in 1..Len(chain) |-> def[chain[i]].filter]

RECURSIVE DownPath(_, _)
\* The blocks a query passes from ptr on, each handing it to the downstream
\* its session was given.
DownPath(ptr, fuel) ==
    IF ptr \notin dlive \/ fuel = 0 THEN <<>>
    ELSE <<ptr>> \o DownPath(fsDown[dnode[ptr].session], fuel - 1)

RECURSIVE DownEnd(_, _)
\* Where the query leaves the blocks: the first component that is no block.
DownEnd(ptr, fuel) ==
    IF ptr \notin dlive \/ fuel = 0 THEN ptr
    ELSE DownEnd(fsDown[dnode[ptr].session], fuel - 1)

\* The sessions of the blocks in the session's downstream chain.
DownSessions ==
    {dnode[DownPath(sess_head, MaxChain + 1)[i]].session :
        i \in 1..Len(DownPath(sess_head, MaxChain + 1))}

\* The sessions of the blocks allocated for the session's upstream chain.
UpSessions == {unode[u].session : u \in ulive}

\* C7: when newSession returns NULL, filterApply returns NULL, the block it
\* allocated is released, setDownstream is not called and the downstream
\* block passed in is as it was.
C7_NewSessionFailure ==
    (clast.op = "apply" /\ clast.newSession = "null") =>
        /\ clast.ret = NULL
        /\ dlive = clast.liveBefore
        /\ Len(sdCalls) = clast.callsBefore
        /\ clast.next \in DAddr => dnode[clast.next] = clast.nextBefore
        /\ sess_head = clast.next

\* newSession failed for a filter whose downstream was a block built before.
C7_Witness ==
    /\ clast.op = "apply" /\ clast.newSession = "null"
    /\ clast.next \in dlive
    /\ spc = "failed"

\* C8: the setDownstream calls are made for the last configured filter
\* first, the first of them with the true sink and each later one with the
\* block built by the call before it, every one with a successor from which
\* the sink is reached; once built, the chain from the session's head passes
\* the configured filters in order and ends at the sink, and so does a query.
C8_ChainOrder ==
    /\ \A k \in 1..Len(sdCalls) :
          /\ sdCalls[k].instance = ChainInstances[Len(chain) - k + 1]
          /\ IF k = 1
             THEN sdCalls[k].downstream = Sink
             ELSE /\ sdCalls[k].downstream \in dlive
                  /\ dnode[sdCalls[k].downstream].session = sdCalls[k - 1].session
          /\ DownEnd(sdCalls[k].downstream, MaxChain + 1) = Sink
    /\ spc \in {"up", "done"} =>
          /\ [i \in 1..Len(DownPath(sess_head, MaxChain + 1)) |->
                dnode[DownPath(sess_head, MaxChain + 1)[i]].instance] = ChainInstances
          /\ DownEnd(sess_head, MaxChain + 1) = Sink
    /\ Len(qtrace) <= Len(chain)
    /\ qtrace = SubSeq(ChainInstances, 1, Len(qtrace))
    /\ qpos = Sink => qtrace = ChainInstances

\* A query has passed the three filters [A, B, C] in that order and is at
\* the sink.
C8_Witness ==
    /\ Len(chain) = 3
    /\ qpos = Sink
    /\ qtrace = <<def[chain[1]].filter, def[chain[2]].filter, def[chain[3]].filter>>

\* C9: for a module without setUpstream, filterUpstream returns the upstream
\* it was given, allocates no block and calls no module function; in a
\* session whose chains are built, such a filter has a block in the
\* downstream chain and none in the upstream chain.
C9_NoSetUpstreamSkipped ==
    /\ (clast.op = "upstream" /\ ~HasSetUpstream(def[clast.filter].obj)) =>
          /\ clast.ret = clast.next
          /\ ulive = clast.liveBefore
          /\ Len(suCalls) = clast.callsBefore
          /\ clast.next \in UAddr => unode[clast.next] = clast.nextBefore
    /\ spc = "done" =>
          \A i \in 1..Len(chain) :
              ~HasSetUpstream(def[chain[i]].obj) =>
                  /\ sfs[i] \in DownSessions
                  /\ sfs[i] \notin UpSessions

\* The chains of a session are built, the last filter connected upstream has
\* no setUpstream, and an earlier filter does have a block upstream.
C9_Witness ==
    /\ spc = "done"
    /\ clast.op = "upstream"
    /\ ~HasSetUpstream(def[clast.filter].obj)
    /\ clast.next \in ulive

\* C10: for a module with setUpstream and without clientReply,
\* filterUpstream returns the upstream it was given, and allocates and
\* splices no block.
C10_NoClientReplySkipped ==
    (/\ clast.op = "upstream"
     /\ HasSetUpstream(def[clast.filter].obj)
     /\ ~HasClientReply(def[clast.filter].obj)) =>
        /\ clast.ret = clast.next
        /\ ulive = clast.liveBefore
        /\ Len(suCalls) = clast.callsBefore

RECURSIVE UpPath(_, _)
\* The blocks a reply passes from ptr on, each handing it to the upstream
\* its session was given.
UpPath(ptr, fuel) ==
    IF ptr \notin ulive \/ fuel = 0 THEN <<>>
    ELSE <<ptr>> \o UpPath(fsUp[unode[ptr].session], fuel - 1)

\* The sessions of the blocks in the session's upstream chain.
UpChainSessions ==
    {unode[UpPath(sess_tail, MaxChain + 1)[i]].session :
        i \in 1..Len(UpPath(sess_tail, MaxChain + 1))}

\* C11: whatever the capabilities of the configured filters, the upstream
\* chain of a session holds only filters that are in its downstream chain,
\* the downstream chain is no longer than the list of configured filters and
\* the upstream chain is no longer than the downstream chain.
C11_ChainLengths ==
    /\ UpSessions \subseteq DownSessions
    /\ UpChainSessions \subseteq DownSessions
    /\ Len(DownPath(sess_head, MaxChain + 1)) <= Len(chain)
    /\ Len(UpPath(sess_tail, MaxChain + 1)) <= Len(DownPath(sess_head, MaxChain + 1))
    /\ spc = "done" =>
          /\ Len(DownPath(sess_head, MaxChain + 1)) = Len(chain)
          /\ Len(UpPath(sess_tail, MaxChain + 1)) =
                Cardinality({i \in 1..Len(chain) :
                                HasSetUpstream(def[chain[i]].obj)
                                /\ HasClientReply(def[chain[i]].obj)})

\* The chains of a session with three filters are built: all three are in
\* the downstream chain and two of them in the upstream chain.
C11_Witness ==
    /\ spc = "done"
    /\ Len(chain) = 3
    /\ Len(DownPath(sess_head, MaxChain + 1)) = 3
    /\ Len(UpPath(sess_tail, MaxChain + 1)) = 2

\* What a step of the load state machine keeps of one definition: a module
\* handle or an instance it holds is still the same after the step.
LoadKeeps(a) ==
    /\ def[a].obj # NULL => def'[a].obj = def[a].obj
    /\ def[a].filter # NULL => def'[a].filter = def[a].filter

\* C20: under sequential filter_load calls a definition holds an instance
\* only if it holds a module handle, a handle or an instance once set is
\* never cleared or replaced, filter_load returns true exactly when the
\* definition holds an instance at the return, and filter_load(NULL)
\* returns false.
C20_LoadMonotonic ==
    /\ [](\A a \in live : def[a].filter # NULL => def[a].obj # NULL)
    /\ [](\A t \in Threads :
            pc[t] = "ret" =>
               IF arg[t] = NULL THEN ~rval[t]
               ELSE rval[t] <=> def[arg[t]].filter # NULL)
    /\ [][\A a \in live : LoadKeeps(a)]_vars

\* A call on a definition that held a module handle and no instance has
\* returned true: the handle is the one it held and the instance is new.
C20_Witness ==
    \E t \in Threads :
        /\ pc[t] = "ret"
        /\ arg[t] # NULL
        /\ rval[t]
        /\ called[t] = {"createInstance_ok"}
        /\ def[arg[t]].obj # NULL
        /\ def[arg[t]].filter # NULL

(***************************************************************************)
(* filter_standard_parameter.  A C string is the sequence of its           *)
(* characters; the terminating NUL is the character after the last.        *)
(***************************************************************************)

\* The character codes strcmp compares.
Code ==
    "t" :> 116 @@ "y" :> 121 @@ "p" :> 112 @@ "e" :> 101 @@ "m" :> 109 @@
    "o" :> 111 @@ "d" :> 100 @@ "u" :> 117 @@ "l" :> 108 @@ "s" :> 115 @@
    "_" :> 95 @@ "T" :> 84 @@ "Y" :> 89 @@ "P" :> 80 @@ "E" :> 69 @@
    "M" :> 77 @@ "O" :> 79 @@ "D" :> 68 @@ "U" :> 85 @@ "L" :> 76

\* The upper-case form of the letters of the reserved names.
Upper ==
    "t" :> "T" @@ "y" :> "Y" @@ "p" :> "P" @@ "e" :> "E" @@ "m" :> "M" @@
    "o" :> "O" @@ "d" :> "D" @@ "u" :> "U" @@ "l" :> "L"

\* The literals "type" and "module" of filter_standard_parameter.
TypeName == <<"t", "y", "p", "e">>
ModuleName == <<"m", "o", "d", "u", "l", "e">>

\* The byte at position i of a C string: its character, or the NUL.
CharAt(str, i) == IF i <= Len(str) THEN Code[str[i]] ELSE 0

RECURSIVE strcmpFrom(_, _, _)
\* strcmp from position i on: the difference of the first bytes that
\* differ, 0 when both strings end together.
strcmpFrom(a, b, i) ==
    IF CharAt(a, i) # CharAt(b, i) THEN CharAt(a, i) - CharAt(b, i)
    ELSE IF CharAt(a, i) = 0 THEN 0
    ELSE strcmpFrom(a, b, i + 1)

\* A comparison that stops after the bytes of b, as strncmp(a, b, strlen(b)).
strcmp_prefix(a, b) ==
    strcmpFrom(IF Len(a) > Len(b) THEN SubSeq(a, 1, Len(b)) ELSE a, b, 1)

\* strcmp(a, b) as filter_standard_parameter calls it.
strcmp(a, b) == strcmpFrom(a, b, 1)

\* A filter_standard_parameter that knows "type" only.
filter_standard_parameter_type_only(name) ==
    IF strcmp(name, TypeName) = 0 THEN 1 ELSE 0

\* filter_standard_parameter(name): 1 for "type" and "module", 0 otherwise.
filter_standard_parameter(name) ==
    IF strcmp(name, TypeName) = 0 \/ strcmp(name, ModuleName) = 0 THEN 1 ELSE 0

\* The names that differ from str in the case of some letters.
Cased(str) ==
    {[i \in 1..Len(str) |-> IF i \in S THEN Upper[str[i]] ELSE str[i]] :
        S \in SUBSET (1..Len(str))}

\* The names that str starts with.
Prefixes(str) == {SubSeq(str, 1, k) : k \in 0..Len(str)}

\* The characters put before or after a name.
Suffixes == UNION {[1..k -> {"s", "e", "_"}] : k \in 1..MaxSuffix}

\* The names that start or end with str.
Extended(str) == {str \o x : x \in Suffixes} \cup {x \o str : x \in Suffixes}

\* The names filter_standard_parameter is called with.
StdInputs ==
    UNION {Cased(str) \cup Prefixes(str) \cup Extended(str) :
              str \in {TypeName, ModuleName}}

\* filter_standard_parameter(spName) is called.
StdCall ==
    /\ spRet = -1
    /\ spRet' = filter_standard_parameter(spName)
    /\ UNCHANGED spName

InitStd ==
    /\ allFilters = NULL
    /\ def = [a \in Addr |-> FreedDef]
    /\ live = {}
    /\ last = NoCall
    /\ dupAlloc = FALSE
    /\ InitHeap(0)
    /\ InitLoadVars
    /\ InitChainVars
    /\ spName \in StdInputs
    /\ spRet = -1
    /\ InitCfgVars
    /\ InitCacheVars

NextStd == StdCall /\ UNCHANGED <<regVars, loadVars, chainVars, cfgVars, cacheVars>>

SpecStd == InitStd /\ [][NextStd]_vars

\* C14: filter_standard_parameter returns 1 exactly for the names "type" and
\* "module" and 0 for every other name, among them the names that differ
\* from these in case only and the names one of these is a prefix of.
C14_StandardParameter ==
    spRet # -1 =>
       /\ spRet \in {0, 1}
       /\ spRet = 1 <=> spName \in {TypeName, ModuleName}
       /\ spName \in (Cased(TypeName) \cup Cased(ModuleName)) \ {TypeName, ModuleName}
             => spRet = 0
       /\ (Len(spName) > Len(TypeName) /\ SubSeq(spName, 1, Len(TypeName)) = TypeName)
             => spRet = 0
       /\ (Len(spName) > Len(ModuleName)
             /\ SubSeq(spName, 1, Len(ModuleName)) = ModuleName)
             => spRet = 0

\* filter_standard_parameter has returned 0 for "modules", a name that
\* "module" is a prefix of.
C14_Witness ==
    /\ spName = ModuleName \o <<"s">>
    /\ spRet = 0

(***************************************************************************)
(* filterAddOption and filterAddParameter, statement by statement.         *)
(***************************************************************************)
\* The option strings and the parameter names and values of the callers.
OptionStrings == <<"ignorecase", "extended", "case", "literal", "global">>
\* The option string of the n-th call the threads make.
OptionOf(n) == OptionStrings[((n - 1) % Len(OptionStrings)) + 1]
TtlName == <<"t", "t", "l">>
ParamNames == {TypeName, ModuleName, TtlName}
ParamValues == {"10"}

\* What a slot MXS_REALLOC added holds before it is written: any pointer.
OptionGarbage == {<<>>, <<"?">>}
ParamGarbage == {<<>>, <<[name |-> <<>>, value |-> "?"]>>}

\* MXS_REALLOC(array, n * sizeof(pointer)): the old slots that fit, then g.
Realloc(array, n, g) == [k \in 1..n |-> IF k <= Len(array) THEN array[k] ELSE g]

\* array[k - 1] = v, the slots counted from 1; a write outside the block
\* changes nothing of it.
Store(array, k, v) == IF k \in 1..Len(array) THEN [array EXCEPT ![k] = v] ELSE array

\* A spinlock_acquire that does not wait for the holder.
SpinFree_ignored(holder) == TRUE

\* spinlock_acquire returns once no thread holds the lock.
SpinFree(holder) == holder = NULL

\* A spinlock_release that leaves the lock held.
Released_kept(holder) == holder

\* spinlock_release: the lock has no holder.
Released(holder) == NULL

\* Some other thread is inside a call on the definition.
Busy(t, filter) == \E u \in Threads \ {t} : opc[u] # "idle" /\ oarg[u].filter = filter

\* A thread calls filterAddOption(filter, option).
AddOptionCall(t, filter, option) ==
    /\ opc[t] = "idle"
    /\ nOps < MaxOps
    /\ nOps' = nOps + 1
    /\ oarg' = [oarg EXCEPT ![t] = [NoOp EXCEPT !.op = "filterAddOption",
                                               !.filter = filter, !.option = option]]
    /\ oloc' = [oloc EXCEPT ![t] = NoLocals]
    /\ optHist' = [optHist EXCEPT ![filter] =
                      Append(@, [option |-> option, overlap |-> Busy(t, filter)])]
    /\ opc' = [opc EXCEPT ![t] = "ao294"]
    /\ UNCHANGED <<regVars, filter_spin, parHist>>

\* line 294: spinlock_acquire(&filter->spin).
AO294(t) ==
    /\ opc[t] = "ao294"
    /\ SpinFree(spin[oarg[t].filter])
    /\ spin' = [spin EXCEPT ![oarg[t].filter] = t]
    /\ opc' = [opc EXCEPT ![t] = "ao295"]
    /\ UNCHANGED <<allFilters, def, live, last, dupAlloc, owned, filter_spin, oarg,
                   oloc, optHist, parHist, nOps>>

\* lines 295 and 305-308: if (filter->options == NULL), else the count of
\* the options.
AO295(t) ==
    /\ opc[t] = "ao295"
    /\ oloc' = [oloc EXCEPT ![t] =
                   [NoLocals EXCEPT !.fresh = (def[oarg[t].filter].options = <<>>),
                                    !.i = EntryCount(def[oarg[t].filter].options)]]
    /\ opc' = [opc EXCEPT ![t] = "ao297"]
    /\ UNCHANGED <<regVars, filter_spin, oarg, optHist, parHist, nOps>>

\* line 297: filter->options = MXS_CALLOC(2, ...), or line 309:
\* filter->options = MXS_REALLOC(filter->options, (i + 2) * ...).
AO297(t) ==
    /\ opc[t] = "ao297"
    /\ LET filter == oarg[t].filter
       IN IF oloc[t].fresh
          THEN /\ def' = [def EXCEPT ![filter].options = <<<<>>, <<>>>>]
               /\ owned' = [owned EXCEPT ![filter].arrays = @ + 1]
          ELSE /\ \E g \in OptionGarbage :
                     def' = [def EXCEPT ![filter].options =
                                Realloc(@, oloc[t].i + 2, g)]
               /\ UNCHANGED owned
    /\ opc' = [opc EXCEPT ![t] = "ao299"]
    /\ UNCHANGED <<allFilters, live, last, dupAlloc, spin, filter_spin, oarg, oloc,
                   optHist, parHist, nOps>>

\* lines 299 and 311: filter->options[i] = MXS_STRDUP_A(option).
AO299(t) ==
    /\ opc[t] = "ao299"
    /\ def' = [def EXCEPT ![oarg[t].filter].options =
                  Store(@, oloc[t].i + 1, <<oarg[t].option>>)]
    /\ owned' = [owned EXCEPT ![oarg[t].filter].strings = @ + 1]
    /\ opc' = [opc EXCEPT ![t] = "ao300"]
    /\ UNCHANGED <<allFilters, live, last, dupAlloc, spin, filter_spin, oarg, oloc,
                   optHist, parHist, nOps>>

\* lines 300 and 313: filter->options[i + 1] = NULL.
AO300(t) ==
    /\ opc[t] = "ao300"
    /\ def' = [def EXCEPT ![oarg[t].filter].options = Store(@, oloc[t].i + 2, <<>>)]
    /\ opc' = [opc EXCEPT ![t] = "ao315"]
    /\ UNCHANGED <<allFilters, live, last, dupAlloc, owned, spin, filter_spin, oarg,
                   oloc, optHist, parHist, nOps>>

\* line 315: spinlock_release(&filter->spin), and the return, which ends
\* the life of the arguments and the locals.
AO315(t) ==
    /\ opc[t] = "ao315"
    /\ spin' = [spin EXCEPT ![oarg[t].filter] = Released(@)]
    /\ opc' = [opc EXCEPT ![t] = "idle"]
    /\ oarg' = [oarg EXCEPT ![t] = NoOp]
    /\ oloc' = [oloc EXCEPT ![t] = NoLocals]
    /\ UNCHANGED <<allFilters, def, live, last, dupAlloc, owned, filter_spin,
                   optHist, parHist, nOps>>

\* A thread calls filterAddParameter(filter, name, value).
AddParameterCall(t, filter, name, value) ==
    /\ opc[t] = "idle"
    /\ nOps < MaxOps
    /\ nOps' = nOps + 1
    /\ oarg' = [oarg EXCEPT ![t] = [NoOp EXCEPT !.op = "filterAddParameter",
                                               !.filter = filter, !.name = name,
                                               !.value = value]]
    /\ oloc' = [oloc EXCEPT ![t] = NoLocals]
    /\ parHist' = [parHist EXCEPT ![filter] =
                      Append(@, [name |-> name, value |-> value,
                                 overlap |-> Busy(t, filter)])]
    /\ opc' = [opc EXCEPT ![t] = "ap330"]
    /\ UNCHANGED <<regVars, filter_spin, optHist>>

\* line 330: spinlock_acquire(&filter->spin).
AP330(t) ==
    /\ opc[t] = "ap330"
    /\ SpinFree(spin[oarg[t].filter])
    /\ spin' = [spin EXCEPT ![oarg[t].filter] = t]
    /\ opc' = [opc EXCEPT ![t] = "ap332"]
    /\ UNCHANGED <<allFilters, def, live, last, dupAlloc, owned, filter_spin, oarg,
                   oloc, optHist, parHist, nOps>>

\* lines 332 and 339-342: if (filter->parameters == NULL), else the count of
\* the parameters.
AP332(t) ==
    /\ opc[t] = "ap332"
    /\ oloc' = [oloc EXCEPT ![t] =
                   [NoLocals EXCEPT !.fresh = (def[oarg[t].filter].parameters = <<>>),
                                    !.i = EntryCount(def[oarg[t].filter].parameters)]]
    /\ opc' = [opc EXCEPT ![t] = "ap334"]
    /\ UNCHANGED <<regVars, filter_spin, oarg, optHist, parHist, nOps>>

\* line 334: parameters = MXS_CALLOC(2, ...), or line 343:
\* parameters = MXS_REALLOC(filter->parameters, (i + 2) * ...).
AP334(t) ==
    /\ opc[t] = "ap334"
    /\ LET filter == oarg[t].filter
       IN IF oloc[t].fresh
          THEN /\ oloc' = [oloc EXCEPT ![t].parameters = <<<<>>, <<>>>>]
               /\ owned' = [owned EXCEPT ![filter].arrays = @ + 1]
          ELSE /\ \E g \in ParamGarbage :
                     oloc' = [oloc EXCEPT ![t].parameters =
                                 Realloc(def[filter].parameters, oloc[t].i + 2, g)]
               /\ UNCHANGED owned
    /\ opc' = [opc EXCEPT ![t] = "ap346"]
    /\ UNCHANGED <<allFilters, def, live, last, dupAlloc, spin, filter_spin, oarg,
                   optHist, parHist, nOps>>

\* lines 346-354: the FILTER_PARAMETER and the copies of name and value are
\* allocated, parameters[i] = parameter and parameters[i + 1] = NULL.
AP346(t) ==
    /\ opc[t] = "ap346"
    /\ oloc' = [oloc EXCEPT ![t].parameters =
                   Store(Store(@, oloc[t].i + 1,
                               <<[name |-> oarg[t].name, value |-> oarg[t].value]>>),
                         oloc[t].i + 2, <<>>)]
    /\ owned' = [owned EXCEPT ![oarg[t].filter] =
                    OwnedPlus(@, [strings |-> 2, arrays |-> 0, records |-> 1])]
    /\ opc' = [opc EXCEPT ![t] = "ap356"]
    /\ UNCHANGED <<allFilters, def, live, last, dupAlloc, spin, filter_spin, oarg,
                   optHist, parHist, nOps>>

\* line 356: filter->parameters = parameters.
AP356(t) ==
    /\ opc[t] = "ap356"
    /\ def' = [def EXCEPT ![oarg[t].filter].parameters = oloc[t].parameters]
    /\ opc' = [opc EXCEPT ![t] = "ap357"]
    /\ UNCHANGED <<allFilters, live, last, dupAlloc, owned, spin, filter_spin, oarg,
                   oloc, optHist, parHist, nOps>>

\* line 357: spinlock_release(&filter->spin), and the return, which ends
\* the life of the arguments and the locals.
AP357(t) ==
    /\ opc[t] = "ap357"
    /\ spin' = [spin EXCEPT ![oarg[t].filter] = Released(@)]
    /\ opc' = [opc EXCEPT ![t] = "idle"]
    /\ oarg' = [oarg EXCEPT ![t] = NoOp]
    /\ oloc' = [oloc EXCEPT ![t] = NoLocals]
    /\ UNCHANGED <<allFilters, def, live, last, dupAlloc, owned, filter_spin,
                   optHist, parHist, nOps>>

\* One statement of a thread inside filterAddOption or filterAddParameter.
AddStep(t) ==
    \/ AO294(t) \/ AO295(t) \/ AO297(t) \/ AO299(t) \/ AO300(t) \/ AO315(t)
    \/ AP330(t) \/ AP332(t) \/ AP334(t) \/ AP346(t) \/ AP356(t) \/ AP357(t)

\* The threads add options and parameters to the configured definitions at
\* any time.
NextOpt ==
    \/ \E t \in Threads, filter \in live :
          AddOptionCall(t, filter, OptionOf(nOps + 1))
             /\ UNCHANGED <<loadVars, chainVars, stdVars, cacheVars>>
    \/ \E t \in Threads, filter \in live, value \in ParamValues :
          AddParameterCall(t, filter, TtlName, value)
             /\ UNCHANGED <<loadVars, chainVars, stdVars, cacheVars>>
    \/ \E t \in Threads : AddStep(t) /\ UNCHANGED <<loadVars, chainVars, stdVars, cacheVars>>

SpecOpt == InitLoad /\ [][NextOpt]_vars

\* The slots of an array before its first NULL one.
Entries(array) == SubSeq(array, 1, EntryCount(array))

\* The number of times v occurs in a sequence.
Occurrences(seq, v) == Cardinality({k \in 1..Len(seq) : seq[k] = v})

\* No thread is inside a call on the definition.
Quiet(filter) == \A t \in Threads : opc[t] = "idle" \/ oarg[t].filter # filter

\* The array holds exactly the values of hist, each as often as hist does,
\* and its NULL slot directly follows the last of them.
HoldsAll(array, hist) ==
    IF hist = <<>> THEN array = <<>>
    ELSE /\ Len(array) = Len(hist) + 1
         /\ EntryCount(array) = Len(hist)
         /\ \A k \in 1..Len(hist) : Occurrences(Entries(array), <<hist[k]>>)
                                       = Occurrences(hist, hist[k])

\* C12: whenever the calls of filterAddOption and filterAddParameter that
\* the threads made on a definition have all returned, its options and its
\* parameters are exactly the values the calls were given, one entry per
\* call, with the NULL slot directly after the last entry.
C12_NoLostAppend ==
    \A filter \in live :
        Quiet(filter) =>
           /\ HoldsAll(def[filter].options,
                       [k \in 1..Len(optHist[filter]) |-> optHist[filter][k].option])
           /\ HoldsAll(def[filter].parameters,
                       [k \in 1..Len(parHist[filter]) |->
                           [name |-> parHist[filter][k].name,
                            value |-> parHist[filter][k].value]])

\* Three calls of filterAddOption on one definition have returned, one of
\* them begun while another thread was inside a call on the definition, and
\* the definition has three options.
C12_Witness ==
    \E filter \in live :
        /\ Quiet(filter)
        /\ Len(optHist[filter]) = 3
        /\ EntryCount(def[filter].options) = 3
        /\ \E k \in 1..3 : optHist[filter][k].overlap

(***************************************************************************)
(* The configuration of the definitions by one thread: filterAddOption and *)
(* filterAddParameter on the definitions filter_alloc made, then           *)
(* filter_free.                                                            *)
(***************************************************************************)
\* No thread is inside a call.
AllIdle == \A t \in Threads : opc[t] = "idle"

\* The configuration is torn down: filter_free(filter).
CfgFree ==
    \E filter \in live :
        /\ AllIdle
        /\ filter_free(filter)
        /\ optHist' = [optHist EXCEPT ![filter] = <<>>]
        /\ parHist' = [parHist EXCEPT ![filter] = <<>>]
        /\ UNCHANGED <<filter_spin, opc, oarg, oloc, nOps>>

NextCfg ==
    \/ CfgFree /\ UNCHANGED <<loadVars, chainVars, stdVars, cacheVars>>
    \/ \E filter \in live :
          AllIdle /\ AddOptionCall(1, filter, OptionOf(nOps + 1))
             /\ UNCHANGED <<loadVars, chainVars, stdVars, cacheVars>>
    \/ \E filter \in live, name \in ParamNames, value \in ParamValues :
          AllIdle /\ AddParameterCall(1, filter, name, value)
             /\ UNCHANGED <<loadVars, chainVars, stdVars, cacheVars>>
    \/ \E t \in Threads : AddStep(t) /\ UNCHANGED <<loadVars, chainVars, stdVars, cacheVars>>

SpecCfg == InitLoad /\ [][NextCfg]_vars

\* The names of the parameters a definition holds.
ParameterNames(f) ==
    {Entries(f.parameters)[k][1].name : k \in 1..EntryCount(f.parameters)}

\* C13 as stated: whatever names filterAddParameter is called with, no
\* definition holds a parameter named "type" or "module".
C13_NoReservedParameter ==
    \A filter \in live :
        Quiet(filter) => ParameterNames(def[filter]) \cap {TypeName, ModuleName} = {}

\* C13: filterAddParameter stores every name it is given, so a definition
\* holds a parameter named "type" or "module" only if filterAddParameter was
\* called on it with a name filter_standard_parameter returns 1 for; callers
\* that pass only names it returns 0 for never store a reserved name.
C13_ReservedOnlyIfPassed ==
    \A filter \in live :
        Quiet(filter) =>
           /\ ParameterNames(def[filter]) =
                 {parHist[filter][k].name : k \in 1..Len(parHist[filter])}
           /\ (\A k \in 1..Len(parHist[filter]) :
                  filter_standard_parameter(parHist[filter][k].name) = 0)
                 => ParameterNames(def[filter]) \cap {TypeName, ModuleName} = {}

\* filterAddParameter has returned from calls with the names "ttl" and
\* "module" on one definition, and the definition holds both parameters.
C13_Witness ==
    \E filter \in live :
        /\ Quiet(filter)
        /\ ParameterNames(def[filter]) = {TtlName, ModuleName}

\* C16: once filter_free(def) has returned, none of the blocks allocated
\* for def by filter_alloc, filterAddOption and filterAddParameter is still
\* allocated.
C16_FreeReleasesAll ==
    \A a \in Addr \ live : owned[a] = NothingOwned

(***************************************************************************)
(* filter_free given definitions that are linked and definitions that are  *)
(* not.                                                                    *)
(***************************************************************************)
FreeAny == \E filter \in Addr \cup {NULL} : filter_free(filter)

NextUnlinked ==
    \/ AllocDup /\ UNCHANGED <<loadVars, chainVars, otherVars>>
    \/ FreeAny /\ UNCHANGED <<loadVars, chainVars, otherVars>>

SpecUnlinked == Init /\ [][NextUnlinked]_vars

\* C15: filter_free on a definition that is not linked in the registry
\* leaves the registry as it was: the same definitions in the same order,
\* and the same filter_count_filters, whether the registry is empty or not.
C15_UnlinkedFreeNoOp ==
    /\ [](last.op = "free_unlinked" => filter_count_filters = last.count)
    /\ [][last'.op = "free_unlinked" =>
             /\ ListFrom(allFilters', def') = ListFrom(allFilters, def)
             /\ \A a \in Registered : def'[a] = def[a]]_vars

\* filter_free has returned from a call on a definition that is not linked
\* while two definitions are registered.
C15_Witness ==
    /\ last.op = "free_unlinked"
    /\ last.ret \notin Registered
    /\ filter_count_filters = 2

(***************************************************************************)
(* The registry operations with their filter_spin sections, called by      *)
(* threads that also add options and parameters.                           *)
(***************************************************************************)
\* dListFilters and dprintAllFilters: the list is walked under filter_spin.
ListCall ==
    /\ last' = [op |-> "list", name |-> "", module |-> "", ret |-> NULL,
                count |-> filter_count_filters, uniq |-> NamesUnique]
    /\ UNCHANGED <<allFilters, def, live, dupAlloc, owned, spin>>

\* The name the threads allocate and look up: that of a third filter.
LockNames == {FilterNames[NLoadDefs + 1]}

\* The registry calls of the threads: filter_free is called on a definition
\* no other thread is using.
RegCalls(t) ==
    {[NoOp EXCEPT !.op = "filter_alloc", !.regname = n, !.module = m] :
        n \in LockNames, m \in RegModules}
    \cup {[NoOp EXCEPT !.op = "filter_free", !.filter = f] :
             f \in {a \in live : ~Busy(t, a)}}
    \cup {[NoOp EXCEPT !.op = "filter_find", !.regname = n] : n \in LockNames}
    \cup {[NoOp EXCEPT !.op = o] : o \in {"filter_count_filters", "dListFilters"}}

\* A thread calls a registry operation and reaches its
\* spinlock_acquire(&filter_spin).
RegCall(t, call) ==
    /\ opc[t] = "idle"
    /\ nOps < MaxOps
    /\ nOps' = nOps + 1
    /\ oarg' = [oarg EXCEPT ![t] = call]
    /\ opc' = [opc EXCEPT ![t] = "reg_acquire"]
    /\ UNCHANGED <<regVars, filter_spin, oloc, optHist, parHist>>

\* filter_alloc whose MXS_STRDUP or MXS_MALLOC fails (lines 55-62), and
\* filter_free(NULL): the call returns without taking a lock.
RegNoLock(t) ==
    /\ opc[t] = "idle"
    /\ nOps < MaxOps
    /\ nOps' = nOps + 1
    /\ \/ \E n \in LockNames, m \in RegModules :
             /\ filter_alloc(n, m)
             /\ last'.ret = NULL
       \/ filter_free(NULL)
    /\ UNCHANGED <<filter_spin, opc, oarg, oloc, optHist, parHist>>

\* spinlock_acquire(&filter_spin).
RegAcquire(t) ==
    /\ opc[t] = "reg_acquire"
    /\ SpinFree(filter_spin)
    /\ filter_spin' = t
    /\ opc' = [opc EXCEPT ![t] = "reg_section"]
    /\ UNCHANGED <<regVars, oarg, oloc, optHist, parHist, nOps>>

\* The operation itself, between the acquire and the release.
RegSection(t) ==
    /\ opc[t] = "reg_section"
    /\ \/ /\ oarg[t].op = "filter_alloc"
          /\ filter_alloc(oarg[t].regname, oarg[t].module)
          /\ last'.ret # NULL
          /\ UNCHANGED <<optHist, parHist>>
       \/ /\ oarg[t].op = "filter_free"
          /\ filter_free(oarg[t].filter)
          /\ optHist' = [optHist EXCEPT ![oarg[t].filter] = <<>>]
          /\ parHist' = [parHist EXCEPT ![oarg[t].filter] = <<>>]
       \/ /\ oarg[t].op = "filter_find"
          /\ FindCall(oarg[t].regname)
          /\ UNCHANGED <<optHist, parHist>>
       \/ /\ oarg[t].op = "filter_count_filters"
          /\ CountCall
          /\ UNCHANGED <<optHist, parHist>>
       \/ /\ oarg[t].op = "dListFilters"
          /\ ListCall
          /\ UNCHANGED <<optHist, parHist>>
    /\ opc' = [opc EXCEPT ![t] = "reg_release"]
    /\ UNCHANGED <<filter_spin, oarg, oloc, nOps>>

\* spinlock_release(&filter_spin), and the return.
RegRelease(t) ==
    /\ opc[t] = "reg_release"
    /\ filter_spin' = Released(filter_spin)
    /\ opc' = [opc EXCEPT ![t] = "idle"]
    /\ oarg' = [oarg EXCEPT ![t] = NoOp]
    /\ UNCHANGED <<regVars, oloc, optHist, parHist, nOps>>

NextLock ==
    \/ \E t \in Threads : \E call \in RegCalls(t) :
          RegCall(t, call) /\ UNCHANGED <<loadVars, chainVars, stdVars, cacheVars>>
    \/ \E t \in Threads : RegNoLock(t) /\ UNCHANGED <<loadVars, chainVars, stdVars, cacheVars>>
    \/ \E t \in Threads : RegAcquire(t) /\ UNCHANGED <<loadVars, chainVars, stdVars, cacheVars>>
    \/ \E t \in Threads : RegSection(t) /\ UNCHANGED <<loadVars, chainVars, stdVars, cacheVars>>
    \/ \E t \in Threads : RegRelease(t) /\ UNCHANGED <<loadVars, chainVars, stdVars, cacheVars>>
    \/ \E t \in Threads, filter \in live :
          /\ ~Busy(t, filter) \/ \A u \in Threads : oarg[u].op # "filter_free"
          /\ AddOptionCall(t, filter, OptionOf(nOps + 1))
          /\ UNCHANGED <<loadVars, chainVars, stdVars, cacheVars>>
    \/ \E t \in Threads, filter \in live :
          /\ ~Busy(t, filter) \/ \A u \in Threads : oarg[u].op # "filter_free"
          /\ AddParameterCall(t, filter, TtlName, "10")
          /\ UNCHANGED <<loadVars, chainVars, stdVars, cacheVars>>
    \/ \E t \in Threads : AddStep(t) /\ UNCHANGED <<loadVars, chainVars, stdVars, cacheVars>>

SpecLock == InitLoad /\ [][NextLock]_vars

\* The thread is at a spinlock_acquire whose lock another thread holds.
Blocked(t) ==
    \/ opc[t] = "reg_acquire" /\ filter_spin # NULL
    \/ opc[t] \in {"ao294", "ap330"} /\ spin[oarg[t].filter] # NULL

\* The locks the thread holds: filter_spin, and the spin of definitions.
HeldBy(t) ==
    (IF filter_spin = t THEN {<<"filter_spin", NULL>>} ELSE {})
       \cup {<<"spin", a>> : a \in {b \in Addr : spin[b] = t}}

CacheConfigs ==
    [ttl : 1..MaxTtl, max_resultset_rows : {MaxRows - 1},
     max_resultset_size : {MaxSize - 1}]

\* The reply satisfies the row and size bounds of the configuration.
WithinBounds(reply, config) ==
    /\ reply.rows <= config.max_resultset_rows
    /\ reply.size <= config.max_resultset_size

\* A storage backend whose entries never expire.
Live_always(entry, time, ttl) == entry # NoEntry

\* The backend holds a live entry: one stored no more than ttl seconds ago.
Live(entry, time, ttl) == entry # NoEntry /\ time - entry.at <= ttl

\* A clientReply that passes the reply on only when its store did not fail.
ForwardedReply_unless_failed(reply, put) == IF put = "failed" THEN NoResult ELSE reply

\* clientReply: the reply handed upstream.
ForwardedReply(reply, put) == reply

\* routeQuery(key): a query the rules do not mark cacheable is forwarded; for
\* one they do the backend is consulted: a live entry is the reply and the
\* query goes no further, a miss or a failed lookup forwards the query and
\* arms the stage.
CacheRouteQuery(key, cacheable, fault) ==
    /\ cpc = "idle"
    /\ LET lookup == IF ~cacheable THEN "none"
                     ELSE IF fault THEN "failed"
                     ELSE IF Live(cstore[key], now, ccfg.ttl) THEN "hit"
                     ELSE "miss"
           call == [NoCacheCall EXCEPT !.op = "routeQuery", !.key = key,
                                       !.cacheable = cacheable, !.time = now,
                                       !.entry = cstore[key], !.lookup = lookup]
       IN IF lookup = "hit"
          THEN /\ clog' = [call EXCEPT !.up = cstore[key].result]
               /\ UNCHANGED <<cpc, pending>>
          ELSE /\ clog' = [call EXCEPT !.forwarded = TRUE, !.armed = cacheable]
               /\ cpc' = "waiting"
               /\ pending' = [key |-> key, armed |-> cacheable]
    /\ UNCHANGED <<ccfg, now, cstore>>

\* clientReply(reply): for an armed request a reply within the bounds is
\* stored under the pending key, which the backend may fail to do; the
\* reply is handed upstream.
CacheClientReply(reply, fault) ==
    /\ cpc = "waiting"
    /\ LET put == IF ~(pending.armed /\ WithinBounds(reply, ccfg)) THEN "none"
                  ELSE IF fault THEN "failed"
                  ELSE "stored"
       IN /\ cstore' = IF put = "stored"
                       THEN [cstore EXCEPT ![pending.key] =
                                [result |-> reply, at |-> now]]
                       ELSE cstore
          /\ clog' = [NoCacheCall EXCEPT !.op = "clientReply", !.key = pending.key,
                                         !.time = now, !.armed = pending.armed,
                                         !.received = reply, !.put = put,
                                         !.up = ForwardedReply(reply, put)]
    /\ cpc' = "idle"
    /\ pending' = NoPending
    /\ UNCHANGED <<ccfg, now>>

\* A second passes.
Tick ==
    /\ now < MaxTime
    /\ now' = now + 1
    /\ UNCHANGED <<ccfg, cstore, cpc, pending, clog>>

InitCache ==
    /\ allFilters = NULL
    /\ def = [a \in Addr |-> FreedDef]
    /\ live = {}
    /\ last = NoCall
    /\ dupAlloc = FALSE
    /\ InitHeap(0)
    /\ InitLoadVars
    /\ InitChainVars
    /\ InitStdVars
    /\ InitCfgVars
    /\ \E config \in CacheConfigs : CacheStarts(config)

\* The stage over a storage backend whose lookups and stores succeed.
NextCache ==
    \/ \E key \in CacheKeys, cacheable \in BOOLEAN :
          CacheRouteQuery(key, cacheable, FALSE)
             /\ UNCHANGED <<regVars, loadVars, chainVars, stdVars, cfgVars>>
    \/ \E reply \in Results :
          CacheClientReply(reply, FALSE)
             /\ UNCHANGED <<regVars, loadVars, chainVars, stdVars, cfgVars>>
    \/ Tick /\ UNCHANGED <<regVars, loadVars, chainVars, stdVars, cfgVars>>

SpecCache == InitCache /\ [][NextCache]_vars

\* The stage over a storage backend whose lookups and stores may fail.
NextCacheFaulty ==
    \/ \E key \in CacheKeys, cacheable \in BOOLEAN, fault \in BOOLEAN :
          CacheRouteQuery(key, cacheable, fault)
             /\ UNCHANGED <<regVars, loadVars, chainVars, stdVars, cfgVars>>
    \/ \E reply \in Results, fault \in BOOLEAN :
          CacheClientReply(reply, fault)
             /\ UNCHANGED <<regVars, loadVars, chainVars, stdVars, cfgVars>>
    \/ Tick /\ UNCHANGED <<regVars, loadVars, chainVars, stdVars, cfgVars>>

SpecCacheFaulty == InitCache /\ [][NextCacheFaulty]_vars

C18_WitnessExpired ==
    /\ clog.op = "routeQuery"
    /\ clog.lookup = "miss"
    /\ clog.entry # NoEntry
    /\ clog.time - clog.entry.at > ccfg.ttl

\* C19: clientReply hands upstream the reply it received, whether the
\* request was armed or not, whether the reply is within the bounds or not
\* and whether the store succeeded or failed; a routeQuery whose lookup
\* fails forwards the query downstream as a miss does.
C19_ReplyAlwaysForwarded ==
    /\ clog.op = "clientReply" =>
          /\ clog.up = clog.received
          /\ clog.received \in Results
          /\ cpc = "idle"
    /\ (clog.op = "routeQuery" /\ clog.lookup = "failed") =>
          /\ clog.forwarded
          /\ clog.armed
          /\ clog.up = NoResult

\* clientReply has handed upstream the reply of an armed request whose
\* store failed.
C19_Witness ==
    /\ clog.op = "clientReply"
    /\ clog.put = "failed"
    /\ clog.up = clog.received

\* A routeQuery whose lookup failed although the backend holds a live entry
\* has forwarded the query.
C19_WitnessLookup ==
    /\ clog.op = "routeQuery"
    /\ clog.lookup = "failed"
    /\ Live(clog.entry, clog.time, ccfg.ttl)
    /\ clog.forwarded

(***************************************************************************)
(* filter_find, filter_count_filters and filter_free, statement by         *)
(* statement, on different threads.                                        *)
(***************************************************************************)
\* The names looked up: that of the last definition of the list, and one
\* that no definition has.
TravNames == {FilterNames[1], FilterNames[NLoadDefs + 1]}

\* The calls of the threads: a definition is passed to filter_free once.
TravCalls ==
    {[NoOp EXCEPT !.op = "filter_find", !.regname = n] : n \in TravNames}
    \cup {[NoOp EXCEPT !.op = "filter_count_filters"]}
    \cup {[NoOp EXCEPT !.op = "filter_free", !.filter = f] :
             f \in {a \in live : \A u \in Threads : oarg[u].filter # a}}

\* A thread calls filter_find or filter_count_filters and reaches the
\* spinlock_acquire(&filter_spin) of line 147 or 503, or calls filter_free
\* on a definition and reaches that of line 94.
TravCall(t, call) ==
    /\ opc[t] = "idle"
    /\ nOps < MaxOps
    /\ nOps' = nOps + 1
    /\ oarg' = [oarg EXCEPT ![t] = call]
    /\ oloc' = [oloc EXCEPT ![t] = NoLocals]
    /\ opc' = [opc EXCEPT ![t] = IF call.op = "filter_free" THEN "ff94" ELSE "tr_acquire"]
    /\ UNCHANGED <<regVars, filter_spin, optHist, parHist>>

\* lines 147-148 and 503-505: spinlock_acquire(&filter_spin), and
\* filter = allFilters.
TravAcquire(t) ==
    /\ opc[t] = "tr_acquire"
    /\ SpinFree(filter_spin)
    /\ filter_spin' = t
    /\ oloc' = [oloc EXCEPT ![t].ptr = allFilters]
    /\ opc' = [opc EXCEPT ![t] = "tr_loop"]
    /\ UNCHANGED <<regVars, oarg, optHist, parHist, nOps>>

\* What a read of block a yields: its contents, or anything once the block
\* has been released.
ReadNext(a) == IF a \in live THEN {def[a].next} ELSE Addr \cup {NULL}
ReadNameIs(a, name) == IF a \in live THEN {def[a].name = name} ELSE BOOLEAN

\* lines 149-156 and 507-511: one turn of while (filter), which reads the
\* block filter points to.
TravLoop(t) ==
    /\ opc[t] = "tr_loop"
    /\ LET ptr == oloc[t].ptr
       IN IF ptr = NULL
          THEN /\ opc' = [opc EXCEPT ![t] = "tr_release"]
               /\ UNCHANGED oloc
          ELSE \E found \in (IF oarg[t].op = "filter_find"
                             THEN ReadNameIs(ptr, oarg[t].regname) ELSE {FALSE}) :
                  IF found
                  THEN /\ opc' = [opc EXCEPT ![t] = "tr_release"]
                       /\ UNCHANGED oloc
                  ELSE /\ \E nxt \in ReadNext(ptr) :
                             oloc' = [oloc EXCEPT ![t].ptr = nxt,
                                                  ![t].i = IF oarg[t].op = "filter_find"
                                                           THEN @ ELSE @ + 1]
                       /\ UNCHANGED opc
    /\ UNCHANGED <<regVars, filter_spin, oarg, optHist, parHist, nOps>>

\* lines 157-158 and 513-514: spinlock_release(&filter_spin), and the
\* return of filter or of i.
TravRelease(t) ==
    /\ opc[t] = "tr_release"
    /\ filter_spin' = Released(filter_spin)
    /\ last' = IF oarg[t].op = "filter_find"
               THEN [op |-> "find", name |-> oarg[t].regname, module |-> "",
                     ret |-> oloc[t].ptr,
                     count |-> filter_count_filters, uniq |-> NamesUnique]
               ELSE [op |-> "count", name |-> "", module |-> "", ret |-> oloc[t].i,
                     count |-> filter_count_filters, uniq |-> NamesUnique]
    /\ opc' = [opc EXCEPT ![t] = "idle"]
    /\ oarg' = [oarg EXCEPT ![t] = NoOp]
    /\ oloc' = [oloc EXCEPT ![t] = NoLocals]
    /\ UNCHANGED <<allFilters, def, live, dupAlloc, owned, spin, optHist, parHist, nOps>>

\* filter_free, line 94: spinlock_acquire(&filter_spin).
FF94(t) ==
    /\ opc[t] = "ff94"
    /\ SpinFree(filter_spin)
    /\ filter_spin' = t
    /\ opc' = [opc EXCEPT ![t] = "ff95"]
    /\ UNCHANGED <<regVars, oarg, oloc, optHist, parHist, nOps>>

\* filter_free, lines 95-110: the unlink.
FF95(t) ==
    /\ opc[t] = "ff95"
    /\ LET u == Unlink(allFilters, def, oarg[t].filter)
       IN /\ allFilters' = u.head
          /\ def' = u.def
    /\ opc' = [opc EXCEPT ![t] = "ff111"]
    /\ UNCHANGED <<live, last, dupAlloc, owned, spin, filter_spin, oarg, oloc,
                   optHist, parHist, nOps>>

\* filter_free, line 111: spinlock_release(&filter_spin).
FF111(t) ==
    /\ opc[t] = "ff111"
    /\ filter_spin' = Released(filter_spin)
    /\ opc' = [opc EXCEPT ![t] = "ff114"]
    /\ UNCHANGED <<regVars, oarg, oloc, optHist, parHist, nOps>>

\* filter_free, lines 114-131: the MXS_FREE of the name, the module, the
\* options, the parameters and the definition, and the return.
FF114(t) ==
    /\ opc[t] = "ff114"
    /\ LET filter == oarg[t].filter
       IN /\ def' = [def EXCEPT ![filter] = FreedDef]
          /\ live' = live \ {filter}
          /\ owned' = [owned EXCEPT ![filter] = OwnedMinus(@, FreedBy(def[filter]))]
          /\ last' = [op |-> "free", name |-> def[filter].name,
                      module |-> def[filter].module, ret |-> filter,
                      count |-> filter_count_filters, uniq |-> NamesUnique]
          /\ optHist' = [optHist EXCEPT ![filter] = <<>>]
          /\ parHist' = [parHist EXCEPT ![filter] = <<>>]
    /\ opc' = [opc EXCEPT ![t] = "idle"]
    /\ oarg' = [oarg EXCEPT ![t] = NoOp]
    /\ UNCHANGED <<allFilters, dupAlloc, spin, filter_spin, oloc, nOps>>

NextTrav ==
    \/ \E t \in Threads : \E call \in TravCalls :
          TravCall(t, call) /\ UNCHANGED <<loadVars, chainVars, stdVars, cacheVars>>
    \/ \E t \in Threads : TravAcquire(t) /\ UNCHANGED <<loadVars, chainVars, stdVars, cacheVars>>
    \/ \E t \in Threads : TravLoop(t) /\ UNCHANGED <<loadVars, chainVars, stdVars, cacheVars>>
    \/ \E t \in Threads : TravRelease(t) /\ UNCHANGED <<loadVars, chainVars, stdVars, cacheVars>>
    \/ \E t \in Threads : FF94(t) /\ UNCHANGED <<loadVars, chainVars, stdVars, cacheVars>>
    \/ \E t \in Threads : FF95(t) /\ UNCHANGED <<loadVars, chainVars, stdVars, cacheVars>>
    \/ \E t \in Threads : FF111(t) /\ UNCHANGED <<loadVars, chainVars, stdVars, cacheVars>>
    \/ \E t \in Threads : FF114(t) /\ UNCHANGED <<loadVars, chainVars, stdVars, cacheVars>>

SpecTrav == InitLoad /\ [][NextTrav]_vars

\* C21: while filter_find, filter_count_filters and filter_free run on
\* different threads, each definition freed once, the block a traversal is
\* reading under filter_spin has not been released: the traversing thread
\* holds filter_spin, every block linked in the list is allocated, and a
\* thread of filter_free that is releasing a definition has unlinked it.
C21_TraversalVisitsLive ==
    /\ \A t \in Threads :
          opc[t] = "tr_loop" =>
             /\ filter_spin = t
             /\ oloc[t].ptr # NULL => oloc[t].ptr \in live
    /\ Registered \subseteq live
    /\ \A t \in Threads : opc[t] = "ff114" => oarg[t].filter \notin Registered

\* A traversal is reading a block while another thread, inside filter_free,
\* has unlinked a definition and released filter_spin but has not yet
\* released the definition.
C21_Witness ==
    \E t, u \in Threads :
       /\ opc[t] = "tr_loop"
       /\ oloc[t].ptr # NULL
       /\ opc[u] = "ff114"
       /\ oarg[u].filter \in live \ Registered

(***************************************************************************)
(* dListFilters and dprintAllFilters, definition by definition, beside     *)
(* filterAddOption.                                                        *)
(***************************************************************************)
Listings == {"dListFilters", "dprintAllFilters"}

\* A thread calls a listing and reaches the spinlock_acquire(&filter_spin)
\* of line 188 or 254.
ListingCall(t, listing) ==
    /\ opc[t] = "idle"
    /\ nOps < MaxOps
    /\ nOps' = nOps + 1
    /\ oarg' = [oarg EXCEPT ![t] = [NoOp EXCEPT !.op = listing]]
    /\ oloc' = [oloc EXCEPT ![t] = NoLocals]
    /\ opc' = [opc EXCEPT ![t] = "ls_acquire"]
    /\ UNCHANGED <<regVars, filter_spin, optHist, parHist>>

\* lines 188-189 and 254-255: spinlock_acquire(&filter_spin), and
\* ptr = allFilters.
LsAcquire(t) ==
    /\ opc[t] = "ls_acquire"
    /\ SpinFree(filter_spin)
    /\ filter_spin' = t
    /\ oloc' = [oloc EXCEPT ![t].ptr = allFilters]
    /\ opc' = [opc EXCEPT ![t] = "ls_loop"]
    /\ UNCHANGED <<regVars, oarg, optHist, parHist, nOps>>

\* Some other thread is inside filterAddOption on the definition, past its
\* MXS_CALLOC or MXS_REALLOC (line 297 or 309) and before its store of the
\* terminating NULL (line 300 or 313).
Appending(t, filter) ==
    \E u \in Threads \ {t} :
       /\ opc[u] \in {"ao299", "ao300"}
       /\ oarg[u].filter = filter

\* lines 190-211 and 264-274: one turn of while (ptr). The for loop of line
\* 197 or 268 reads ptr->options, holding filter_spin and not ptr->spin;
\* seen is the array it read, torn whether it read it during an append.
LsLoop(t) ==
    /\ opc[t] = "ls_loop"
    /\ LET ptr == oloc[t].ptr
       IN IF ptr = NULL
          THEN /\ opc' = [opc EXCEPT ![t] = "ls_release"]
               /\ UNCHANGED oloc
          ELSE /\ oloc' = [oloc EXCEPT ![t].seen = def[ptr].options,
                                       ![t].torn = @ \/ Appending(t, ptr),
                                       ![t].ptr = def[ptr].next]
               /\ UNCHANGED opc
    /\ UNCHANGED <<regVars, filter_spin, oarg, optHist, parHist, nOps>>

\* lines 213 and 280: spinlock_release(&filter_spin), and the return.
LsRelease(t) ==
    /\ opc[t] = "ls_release"
    /\ filter_spin' = Released(filter_spin)
    /\ last' = [op |-> "list", name |-> "", module |-> "", ret |-> NULL,
                count |-> filter_count_filters, uniq |-> NamesUnique]
    /\ opc' = [opc EXCEPT ![t] = "idle"]
    /\ oarg' = [oarg EXCEPT ![t] = NoOp]
    /\ oloc' = [oloc EXCEPT ![t] = NoLocals]
    /\ UNCHANGED <<allFilters, def, live, dupAlloc, owned, spin, optHist, parHist, nOps>>

NextListing ==
    \/ \E t \in Threads, listing \in Listings :
          ListingCall(t, listing) /\ UNCHANGED <<loadVars, chainVars, stdVars, cacheVars>>
    \/ \E t \in Threads : LsAcquire(t) /\ UNCHANGED <<loadVars, chainVars, stdVars, cacheVars>>
    \/ \E t \in Threads : LsLoop(t) /\ UNCHANGED <<loadVars, chainVars, stdVars, cacheVars>>
    \/ \E t \in Threads : LsRelease(t) /\ UNCHANGED <<loadVars, chainVars, stdVars, cacheVars>>
    \/ \E t \in Threads, filter \in live :
          AddOptionCall(t, filter, OptionOf(nOps + 1))
             /\ UNCHANGED <<loadVars, chainVars, stdVars, cacheVars>>
    \/ \E t \in Threads : AO294(t) /\ UNCHANGED <<loadVars, chainVars, stdVars, cacheVars>>
    \/ \E t \in Threads : AO295(t) /\ UNCHANGED <<loadVars, chainVars, stdVars, cacheVars>>
    \/ \E t \in Threads : AO297(t) /\ UNCHANGED <<loadVars, chainVars, stdVars, cacheVars>>
    \/ \E t \in Threads : AO299(t) /\ UNCHANGED <<loadVars, chainVars, stdVars, cacheVars>>
    \/ \E t \in Threads : AO300(t) /\ UNCHANGED <<loadVars, chainVars, stdVars, cacheVars>>
    \/ \E t \in Threads : AO315(t) /\ UNCHANGED <<loadVars, chainVars, stdVars, cacheVars>>

SpecListing == InitLoad /\ [][NextListing]_vars

\* The array is NULL, or one of its slots is NULL.
NullTerminated(array) == array = <<>> \/ EntryCount(array) < Len(array)

\* C22: a listing that runs beside a filterAddOption on a registered
\* definition reads the options of the definition atomically with respect
\* to the append: it never reads the option array while filterAddOption is
\* between allocating it and storing its terminator, and the array it read
\* is NULL-terminated.
C22_ListingAtomic ==
    \A t \in Threads :
       opc[t] \in {"ls_loop", "ls_release"} =>
          /\ ~oloc[t].torn
          /\ NullTerminated(oloc[t].seen)

=============================================================================
